---- MODULE Spec2Model ----
(***************************************************************************)
(* Model of the AI Creative Studio repository:                             *)
(*   src/code/logic_image_edit.py  create_composite, _prepare_image,       *)
(*                                 _paste_with_alpha                       *)
(*   src/code/logic_text.py        generate_prompts, generate_captions     *)
(*   src/code/logic_image_gen.py   generate_background                     *)
(*   src/code/app.py               the Streamlit script run                *)
(*                                                                         *)
(* Numbers.  Python floats are modelled by exact rationals: a ratio is a   *)
(* pair <<num, den>>, and int(x) of a non-negative x is floor division.    *)
(* Pixels keep their 8-bit width; one colour channel stands for R, G and B *)
(* (the code treats the three alike).                                      *)
(* Images.  A source image (background, product, logo) is a solid-colour   *)
(* image [mode, width, height, px]; the working image of the compositor is *)
(* a raster [mode, width, height, at] holding the pixels at the sample     *)
(* points of SamplePoints.                                                 *)
(***************************************************************************)
EXTENDS Integers, Sequences, FiniteSets, TLC

VARIABLES
    \* ---- create_composite (logic_image_edit.py) ----
    background,           \* argument: the generated background
    product,              \* argument: the product image
    logo,                 \* argument: the logo image
    product_size_ratio,   \* argument, <<num, den>>
    logo_size_ratio,      \* argument, <<num, den>>
    cpc,                  \* "idle" | "call" | "returned" | "raised"
    cc,                   \* what the call computed (its locals and its result)
    passed,               \* the three images as they were when the call was made
    \* ---- generate_prompts, generate_captions (logic_text.py) ----
    num_variations,       \* the count asked for (app.py's slider)
    gemini,               \* the outcome of the latest _call_gemini
    prompts,              \* the list generate_prompts returned
    captions,             \* the list generate_captions returned
    tpc,                  \* "idle" | "prompts" | "captions" | "prompts_done" | "captions_done"
    \* ---- the script run (app.py) ----
    product_image_file,   \* the uploaded product file, or NoFile
    logo_image_file,      \* the uploaded logo file, or NoFile
    product_description,  \* the text area's text
    env,                  \* which credentials os.getenv finds
    apc,                  \* position of the run, see AppPositions
    i,                    \* the variation loop's index (0-based)
    composites,           \* the list of successful composites
    failed_generations,   \* the list of failed variation numbers
    last_response,        \* what the image service did at the latest call
    events,               \* the calls made and the messages shown, in order
    archive               \* the ZIP archive's entries, in order

compositeVars ==
    <<background, product, logo, product_size_ratio, logo_size_ratio, cpc, cc,
      passed>>
textVars == <<num_variations, gemini, prompts, captions, tpc>>
appVars ==
    <<product_image_file, logo_image_file, product_description, env, apc, i,
      composites, failed_generations, last_response, events, archive>>
vars == <<compositeVars, textVars, appVars>>

-----------------------------------------------------------------------------
(* Bounds and program constants *)

\* Largest width and height of a product or logo image.
MaxDim == 3

\* The side of the background requested from generate_background.
DefaultSide == 1024

\* Background widths and heights.
BgSides == {1, 20, DefaultSide}

\* Alpha values of the source images' pixels.
Alphas == {0, 128, 255}

\* create_composite's default ratios (0.4 and 0.15).
DefaultProductSizeRatio == <<2, 5>>
DefaultLogoSizeRatio == <<3, 20>>

\* Ratios in (0, 1].
ProductRatios == {DefaultProductSizeRatio, <<1, 1>>}
LogoRatios == {DefaultLogoSizeRatio, <<1, 1>>}

\* Most lines of a text-generation response.
MaxLines == 6

\* Largest number of variations a modelled run asks for (the slider allows
\* SliderMin .. SliderMax).
MaxRunVariations == 6

\* app.py's slider: min_value and max_value of "Number of Variations".
SliderMin == 5
SliderMax == 10

\* logic_text.py: "len(cleaned) > 10" for prompts, "len(cleaned) > 5" for
\* captions.
PromptMinLength == 10
CaptionMinLength == 5

\* "if product_target_width > bg_width * 0.9"
MaxWidthFraction == <<9, 10>>
\* "int(bg_height * 0.05)  # 5% margin from bottom"
BottomMarginFraction == <<5, 100>>
\* "int(bg_width * 0.02)  # 2% margin"
LogoMarginFraction == <<2, 100>>

-----------------------------------------------------------------------------
(* Arithmetic *)

\* int(n * r) for a float r = num/den and n >= 0.
IntMul(n, r) == (n * r[1]) \div r[2]

\* int(n / r) for a float r = num/den > 0 and n >= 0.
IntDiv(n, r) == (n * r[2]) \div r[1]

\* n > m * r, for a float r = num/den.
GreaterThanMul(n, m, r) == n * r[2] > m * r[1]

Abs(n) == IF n < 0 THEN -n ELSE n

\* Pillow's SHIFTFORDIV255 and the macros built on it (ImagingUtils.h).
SHIFTFORDIV255(a) == ((a \div 256) + a) \div 256
DIV255(a) == SHIFTFORDIV255(a + 128)
MULDIV255(a, b) == DIV255(a * b)
CLIP8(v) == IF v > 255 THEN 255 ELSE IF v < 0 THEN 0 ELSE v

\* AlphaComposite.c: PRECISION_BITS is 7; the factor 1 << PRECISION_BITS.
PrecisionFactor == 2 ^ 7

-----------------------------------------------------------------------------
(* Images *)

Pixel(c, a) == [c |-> c, a |-> a]

\* Image.new(mode, size, (0, 0, 0, 0))
TransparentPixel == Pixel(0, 0)

SolidImage(mode, width, height, px) ==
    [mode |-> mode, width |-> width, height |-> height, px |-> px]

\* The columns and rows whose pixels a raster records.
SampleXs(width) == {0, width \div 2, (9 * width) \div 10} \cap (0 .. width - 1)
SampleYs(height) == {0, height \div 20, (9 * height) \div 10} \cap (0 .. height - 1)
SamplePoints(width, height) == SampleXs(width) \X SampleYs(height)

\* No image: the value of a local that was never assigned.
NoImage == [mode |-> "none", width |-> 0, height |-> 0]

\* Image.convert(mode): an image without alpha becomes fully opaque.
convert(image, mode) ==
    IF mode = "RGBA" /\ image.mode = "RGB"
    THEN [image EXCEPT !.mode = "RGBA", !.px = Pixel(image.px.c, 255)]
    ELSE [image EXCEPT !.mode = mode]

\* Image.copy() of a solid image, as a raster.
copy(image) ==
    [mode |-> image.mode, width |-> image.width, height |-> image.height,
     at |-> [p \in SamplePoints(image.width, image.height) |-> image.px]]

\* Image.new(mode, size, color)
ImageNew(mode, width, height, color) ==
    [mode |-> mode, width |-> width, height |-> height,
     at |-> [p \in SamplePoints(width, height) |-> color]]

\* logic_image_edit.py, _prepare_image
_prepare_image(image, mode) ==
    IF image.mode # mode
    THEN IF mode = "RGBA" /\ image.mode = "RGB"
         THEN convert(image, "RGBA")
         ELSE convert(image, mode)
    ELSE image

\* Image.resize raises ValueError("height and width must be > 0") otherwise.
ValidResize(width, height) == width >= 1 /\ height >= 1

\* Convert.c: RGBA -> RGBa (premultiply) and RGBa -> RGBA, which Image.resize
\* applies around the resampling of an RGBA image.
Premultiply(px) == Pixel(MULDIV255(px.c, px.a), px.a)
Unpremultiply(px) ==
    IF px.a = 255 \/ px.a = 0 THEN px
    ELSE Pixel(CLIP8((255 * px.c) \div px.a), px.a)

\* Image.resize((width, height), LANCZOS) of a solid image: the same size is a
\* copy; any other size resamples the premultiplied image, and resampling a
\* solid colour yields that colour.
resize(image, width, height) ==
    IF image.width = width /\ image.height = height THEN image
    ELSE SolidImage(image.mode, width, height,
                    IF image.mode = "RGBA"
                    THEN Unpremultiply(Premultiply(image.px))
                    ELSE image.px)

\* Paste.c BLEND8, on every channel of an RGBA pixel (paste_mask_RGBA).
BLEND8(mask, in1, in2) == DIV255(in1 * (255 - mask) + in2 * mask)
BlendPixel(mask, out, in) ==
    Pixel(BLEND8(mask, out.c, in.c), BLEND8(mask, out.a, in.a))

\* The box a paste at position covers; Paste.c clips it to the destination.
InBox(p, position, source) ==
    /\ position[1] <= p[1] /\ p[1] < position[1] + source.width
    /\ position[2] <= p[2] /\ p[2] < position[2] + source.height

\* Image.paste(source, position, mask) with an RGBA mask: the mask's alpha
\* band weights source against the destination, pixel by pixel.
paste(dest, source, position, mask) ==
    [dest EXCEPT !.at = [p \in DOMAIN dest.at |->
        IF InBox(p, position, source)
        THEN BlendPixel(mask.px.a, dest.at[p], source.px)
        ELSE dest.at[p]]]

\* AlphaComposite.c, one pixel: src over dst.
AlphaCompositePixel(dst, src) ==
    IF src.a = 0 THEN dst
    ELSE LET blend == dst.a * (255 - src.a)
             outa255 == src.a * 255 + blend
             coef1 == (src.a * 255 * 255 * PrecisionFactor) \div outa255
             coef2 == 255 * PrecisionFactor - coef1
             tmpc == src.c * coef1 + dst.c * coef2
         IN Pixel(SHIFTFORDIV255(tmpc + 128 * PrecisionFactor) \div PrecisionFactor,
                  SHIFTFORDIV255(outa255 + 128))

\* Image.alpha_composite(dst, src): ValueError("images do not match") unless
\* both are RGBA of one size (here: no image).
alpha_composite(dst, src) ==
    IF dst.mode # "RGBA" \/ src.mode # "RGBA"
       \/ dst.width # src.width \/ dst.height # src.height
    THEN NoImage
    ELSE [dst EXCEPT !.at = [p \in DOMAIN dst.at |->
             AlphaCompositePixel(dst.at[p], src.at[p])]]

\* Mutant of _paste_with_alpha: the temporary image takes the overlay's size and
\* is composited onto the matching crop of the base.
PasteWithAlpha_OverlaySized(base, overlay, position) ==
    LET temp == ImageNew("RGBA", overlay.width, overlay.height, TransparentPixel)
        pasted == paste(temp, overlay, <<0, 0>>, overlay)
        cropped == ImageNew("RGBA", overlay.width, overlay.height, base.at[<<0, 0>>])
    IN alpha_composite(cropped, pasted)

\* logic_image_edit.py, _paste_with_alpha
_paste_with_alpha(base, overlay, position) ==
    LET temp == ImageNew("RGBA", base.width, base.height, TransparentPixel)
        pasted == paste(temp, overlay, position, overlay)
    IN alpha_composite(base, pasted)

-----------------------------------------------------------------------------
(* create_composite *)

\* Lines 35-45: the product's target size, <<width, height>>.
ProductCapped(bg_width, bg_height, product_width, product_height, ratio) ==
    GreaterThanMul(IntMul(IntMul(bg_height, ratio), <<product_width, product_height>>),
                   bg_width, MaxWidthFraction)

\* round(n * r), half up: what a rounding variant of the sizing would compute.
RoundMul(n, r) == (2 * n * r[1] + r[2]) \div (2 * r[2])
RoundDiv(n, r) == (2 * n * r[2] + r[1]) \div (2 * r[1])

\* Mutant of ProductTargetSize: round() in place of int().
ProductTargetSize_Round(bg_width, bg_height, product_width, product_height, ratio) ==
    LET product_target_height == RoundMul(bg_height, ratio)
        product_aspect == <<product_width, product_height>>
        product_target_width == RoundMul(product_target_height, product_aspect)
    IN IF GreaterThanMul(product_target_width, bg_width, MaxWidthFraction)
       THEN LET capped_width == RoundMul(bg_width, MaxWidthFraction)
            IN <<capped_width, RoundDiv(capped_width, product_aspect)>>
       ELSE <<product_target_width, product_target_height>>

\* Mutant of ProductTargetSize: the width cap is missing.
ProductTargetSize_NoCap(bg_width, bg_height, product_width, product_height, ratio) ==
    LET product_target_height == IntMul(bg_height, ratio)
    IN <<IntMul(product_target_height, <<product_width, product_height>>),
         product_target_height>>

\* Mutant of ProductTargetSize: the cap does not recompute the height.
ProductTargetSize_KeepHeight(bg_width, bg_height, product_width, product_height, ratio) ==
    LET product_target_height == IntMul(bg_height, ratio)
        product_target_width ==
            IntMul(product_target_height, <<product_width, product_height>>)
    IN IF GreaterThanMul(product_target_width, bg_width, MaxWidthFraction)
       THEN <<IntMul(bg_width, MaxWidthFraction), product_target_height>>
       ELSE <<product_target_width, product_target_height>>

ProductTargetSize(bg_width, bg_height, product_width, product_height, ratio) ==
    LET product_target_height == IntMul(bg_height, ratio)
        product_aspect == <<product_width, product_height>>
        product_target_width == IntMul(product_target_height, product_aspect)
    IN IF GreaterThanMul(product_target_width, bg_width, MaxWidthFraction)
       THEN LET capped_width == IntMul(bg_width, MaxWidthFraction)
            IN <<capped_width, IntDiv(capped_width, product_aspect)>>
       ELSE <<product_target_width, product_target_height>>

\* Lines 50-51: centre-bottom position, <<x, y>>.
ProductPosition(bg_width, bg_height, target) ==
    <<(bg_width - target[1]) \div 2,
      bg_height - target[2] - IntMul(bg_height, BottomMarginFraction)>>

\* Mutant of LogoTargetSize: round() in place of int().
LogoTargetSize_Round(bg_width, logo_width, logo_height, ratio) ==
    LET logo_target_width == RoundMul(bg_width, ratio)
    IN <<logo_target_width, RoundDiv(logo_target_width, <<logo_width, logo_height>>)>>

\* Lines 60-62: the logo's target size, <<width, height>>.
LogoTargetSize(bg_width, logo_width, logo_height, ratio) ==
    LET logo_target_width == IntMul(bg_width, ratio)
        logo_aspect == <<logo_width, logo_height>>
    IN <<logo_target_width, IntDiv(logo_target_width, logo_aspect)>>

\* Lines 67-69: top-right position, <<x, y>>.
LogoPosition(bg_width, target) ==
    LET logo_margin == IntMul(bg_width, LogoMarginFraction)
    IN <<bg_width - target[1] - logo_margin, logo_margin>>

\* The locals a call leaves behind.  stage is how far the call got:
\* "product_resize" and "logo_resize" are the calls that raised, "return" is
\* the normal end.
create_composite(background_, product_, logo_, product_ratio, logo_ratio) ==
    LET bg == IF background_.mode # "RGBA" THEN convert(background_, "RGBA")
              ELSE background_
        composite0 == copy(bg)
        prod == _prepare_image(product_, "RGBA")
        bg_width == composite0.width
        bg_height == composite0.height
        product_target == ProductTargetSize(bg_width, bg_height,
                                            prod.width, prod.height, product_ratio)
        product_ok == ValidResize(product_target[1], product_target[2])
        product_resized == resize(prod, product_target[1], product_target[2])
        product_pos == ProductPosition(bg_width, bg_height, product_target)
        composite1 == _paste_with_alpha(composite0, product_resized, product_pos)
        lg == _prepare_image(logo_, "RGBA")
        logo_target == LogoTargetSize(bg_width, lg.width, lg.height, logo_ratio)
        logo_ok == ValidResize(logo_target[1], logo_target[2])
        logo_resized == resize(lg, logo_target[1], logo_target[2])
        logo_pos == LogoPosition(bg_width, logo_target)
        composite2 == _paste_with_alpha(composite1, logo_resized, logo_pos)
    IN IF ~product_ok
       THEN [stage |-> "product_resize", raised |-> TRUE,
             base |-> composite0, product_target |-> product_target,
             product_resized |-> NoImage, product_pos |-> <<>>,
             after_product |-> NoImage,
             logo_target |-> <<>>, logo_resized |-> NoImage, logo_pos |-> <<>>,
             image |-> NoImage]
       ELSE IF ~logo_ok \/ composite1 = NoImage
       THEN [stage |-> IF composite1 = NoImage THEN "product_paste" ELSE "logo_resize",
             raised |-> TRUE,
             base |-> composite0, product_target |-> product_target,
             product_resized |-> product_resized, product_pos |-> product_pos,
             after_product |-> composite1,
             logo_target |-> IF composite1 = NoImage THEN <<>> ELSE logo_target,
             logo_resized |-> NoImage, logo_pos |-> <<>>,
             image |-> NoImage]
       ELSE [stage |-> IF composite2 = NoImage THEN "logo_paste" ELSE "return",
             raised |-> composite2 = NoImage,
             base |-> composite0, product_target |-> product_target,
             product_resized |-> product_resized, product_pos |-> product_pos,
             after_product |-> composite1,
             logo_target |-> logo_target, logo_resized |-> logo_resized,
             logo_pos |-> logo_pos,
             image |-> composite2]

\* The value of cc before the call.
NotCalled ==
    [stage |-> "none", raised |-> FALSE, base |-> NoImage, product_target |-> <<>>,
     product_resized |-> NoImage, product_pos |-> <<>>, after_product |-> NoImage,
     logo_target |-> <<>>, logo_resized |-> NoImage, logo_pos |-> <<>>,
     image |-> NoImage]

-----------------------------------------------------------------------------
(* create_composite on objects: which image object each step reads, creates *)
(* or writes.  A heap is the sequence of the image objects that exist; an   *)
(* object's reference is its index.  Each operation yields the heap after   *)
(* it and the reference it returns.                                         *)

\* "name = value", then the statements that follow it: the value is computed
\* once and Rest is the remainder of the function body, reading it by name.
Assign(value, Rest(_)) == CHOOSE outcome \in {Rest(v) : v \in {value}} : TRUE

Allocated(heap, image) == [heap |-> Append(heap, image), ref |-> Len(heap) + 1]
Same(heap, ref) == [heap |-> heap, ref |-> ref]

\* Image.convert, Image.copy, Image.new, Image.alpha_composite: a new object.
convert_object(heap, ref, mode) == Allocated(heap, convert(heap[ref], mode))
copy_object(heap, ref) == Allocated(heap, copy(heap[ref]))
new_object(heap, mode, width, height, color) ==
    Allocated(heap, ImageNew(mode, width, height, color))
alpha_composite_object(heap, dst, src) ==
    Allocated(heap, alpha_composite(heap[dst], heap[src]))

\* Mutant of resize_object: the image is resized in place (as Image.thumbnail
\* does) and the object itself is returned.
resize_object_in_place(heap, ref, width, height) ==
    Same([heap EXCEPT ![ref] = resize(heap[ref], width, height)], ref)

\* Image.resize: a new object.
resize_object(heap, ref, width, height) ==
    Allocated(heap, resize(heap[ref], width, height))

\* Image.paste: writes the destination object, returns nothing.
paste_object(heap, dest, source, position, mask) ==
    [heap EXCEPT ![dest] = paste(heap[dest], heap[source], position, heap[mask])]

\* _prepare_image: the object passed in when its mode is already the target
\* mode, a converted new object otherwise.
_prepare_image_object(heap, ref, mode) ==
    IF heap[ref].mode # mode THEN convert_object(heap, ref, mode)
    ELSE Same(heap, ref)

\* _paste_with_alpha: temp is new and is the only object written.
_paste_with_alpha_object(heap, base, overlay, position) ==
    Assign(new_object(heap, "RGBA", heap[base].width, heap[base].height,
                      TransparentPixel), LAMBDA temp :
    Assign(paste_object(temp.heap, temp.ref, overlay, position, overlay),
           LAMBDA pasted :
    alpha_composite_object(pasted, base, temp.ref)))

\* The three argument objects when the call ends, and the image it returned.
Ended(heap, image) ==
    [background |-> heap[1], product |-> heap[2], logo |-> heap[3], image |-> image]

\* create_composite with its arguments as objects 1, 2 and 3 of the heap:
\* the three objects as they are when the call ends (by return or exception),
\* and the image returned.  The sizes and positions are those create_composite
\* computes; a resize or alpha_composite that raises ends the call.
create_composite_objects(background_, product_, logo_, product_ratio, logo_ratio) ==
    Assign(create_composite(background_, product_, logo_, product_ratio, logo_ratio),
           LAMBDA made :
    Assign(<<background_, product_, logo_>>, LAMBDA given :
    Assign(IF given[1].mode # "RGBA" THEN convert_object(given, 1, "RGBA")
           ELSE Same(given, 1), LAMBDA bg :
    Assign(copy_object(bg.heap, bg.ref), LAMBDA composite0 :
    Assign(_prepare_image_object(composite0.heap, 2, "RGBA"), LAMBDA prod :
    IF made.stage = "product_resize" THEN Ended(prod.heap, NoImage) ELSE
    Assign(resize_object(prod.heap, prod.ref,
                         made.product_target[1], made.product_target[2]),
           LAMBDA product_resized :
    Assign(_paste_with_alpha_object(product_resized.heap, composite0.ref,
                                    product_resized.ref, made.product_pos),
           LAMBDA composite1 :
    IF made.stage = "product_paste" THEN Ended(composite1.heap, NoImage) ELSE
    Assign(_prepare_image_object(composite1.heap, 3, "RGBA"), LAMBDA lg :
    IF made.stage = "logo_resize" THEN Ended(lg.heap, NoImage) ELSE
    Assign(resize_object(lg.heap, lg.ref, made.logo_target[1], made.logo_target[2]),
           LAMBDA logo_resized :
    Assign(_paste_with_alpha_object(logo_resized.heap, composite1.ref,
                                    logo_resized.ref, made.logo_pos),
           LAMBDA composite2 :
    Ended(composite2.heap,
          IF made.raised THEN NoImage ELSE composite2.heap[composite2.ref])
    ))))))))))

-----------------------------------------------------------------------------
(* The values of the variables a specification does not use *)

NoResponse == [kind |-> "none", lines |-> <<>>]

NoFile == [kind |-> "none"]
NoStabilityResponse == [kind |-> "none"]

IdleApp ==
    /\ product_image_file = NoFile
    /\ logo_image_file = NoFile
    /\ product_description = <<>>
    /\ env = [GEMINI_API_KEY |-> FALSE, STABILITY_API_KEY |-> FALSE]
    /\ apc = "idle"
    /\ i = 0
    /\ composites = <<>>
    /\ failed_generations = <<>>
    /\ last_response = NoStabilityResponse
    /\ events = <<>>
    /\ archive = <<>>

IdleComposite ==
    /\ background = NoImage /\ product = NoImage /\ logo = NoImage
    /\ product_size_ratio = DefaultProductSizeRatio
    /\ logo_size_ratio = DefaultLogoSizeRatio
    /\ cpc = "idle"
    /\ cc = NotCalled
    /\ passed = <<>>

IdleText ==
    /\ num_variations = SliderMin
    /\ gemini = NoResponse
    /\ prompts = <<>>
    /\ captions = <<>>
    /\ tpc = "idle"

-----------------------------------------------------------------------------
(* logic_text.py: text generation *)

\* A text is a sequence of one-character strings (a template's fixed parts
\* and the description it embeds are single tokens).
Whitespace == {" ", "tab"}
ProductDescription == "{product_description}"

RECURSIVE LStrip(_)
LStrip(s) == IF s # <<>> /\ Head(s) \in Whitespace THEN LStrip(Tail(s)) ELSE s

RECURSIVE RStrip(_)
RStrip(s) ==
    IF s # <<>> /\ s[Len(s)] \in Whitespace THEN RStrip(SubSeq(s, 1, Len(s) - 1))
    ELSE s

\* Mutant of Strip: nothing is removed.
Strip_None(s) == s

\* str.strip()
Strip(s) == RStrip(LStrip(s))

\* re.sub(r'^[\d\-\*\u2022]\s*\.?\s*', '', cleaned): one digit, dash, star or
\* bullet (the character U+2022, written "bullet"), then blanks, an optional
\* dot, and blanks.
NumberingChars ==
    {"0", "1", "2", "3", "4", "5", "6", "7", "8", "9", "-", "*", "bullet"}
StripNumbering(s) ==
    IF s # <<>> /\ Head(s) \in NumberingChars
    THEN LET afterBlanks == LStrip(Tail(s))
             afterDot == IF afterBlanks # <<>> /\ Head(afterBlanks) = "."
                         THEN Tail(afterBlanks) ELSE afterBlanks
         IN LStrip(afterDot)
    ELSE s

RECURSIVE DropHashes(_)
DropHashes(s) == IF s # <<>> /\ Head(s) = "#" THEN DropHashes(Tail(s)) ELSE s

\* re.sub(r'^\*\*|^\*|^#+\s*', '', cleaned)
StripMarkdown(s) ==
    IF Len(s) >= 2 /\ s[1] = "*" /\ s[2] = "*" THEN SubSeq(s, 3, Len(s))
    ELSE IF s # <<>> /\ s[1] = "*" THEN Tail(s)
    ELSE IF s # <<>> /\ s[1] = "#" THEN LStrip(DropHashes(s))
    ELSE s

\* The parsing loop of generate_prompts and generate_captions: the cleaned
\* lines longer than min_length, in order.
RECURSIVE ParseLines(_, _)
ParseLines(lines, min_length) ==
    IF lines = <<>> THEN <<>>
    ELSE LET stripped == Strip(Head(lines))
             cleaned == StripMarkdown(StripNumbering(stripped))
             rest == ParseLines(Tail(lines), min_length)
         IN IF stripped = <<>> THEN rest
            ELSE IF cleaned # <<>> /\ Len(cleaned) > min_length
                 THEN <<Strip(cleaned)>> \o rest
                 ELSE rest

\* The text _call_gemini returns, parts[0].get("text", "").strip(), as lines:
\* blank lines at either end are gone.
RECURSIVE DropBlankLinesFront(_)
DropBlankLinesFront(lines) ==
    IF lines # <<>> /\ Strip(Head(lines)) = <<>> THEN DropBlankLinesFront(Tail(lines))
    ELSE lines
RECURSIVE DropBlankLinesBack(_)
DropBlankLinesBack(lines) ==
    IF lines # <<>> /\ Strip(lines[Len(lines)]) = <<>>
    THEN DropBlankLinesBack(SubSeq(lines, 1, Len(lines) - 1))
    ELSE lines
StripText(lines) == DropBlankLinesBack(DropBlankLinesFront(lines))

\* _call_gemini: it raises (no key, HTTP error, network error, no candidates,
\* no parts) or returns the stripped text of the first part.
\* http is what the endpoint did: [kind |-> "raise"] or
\* [kind |-> "text", lines |-> the text's lines].
_call_gemini(key_set, http) ==
    IF ~key_set \/ http.kind = "raise" THEN [kind |-> "raise", lines |-> <<>>]
    ELSE [kind |-> "text", lines |-> StripText(http.lines)]

Digit == <<"0", "1", "2", "3", "4", "5", "6", "7", "8", "9">>
\* f"{n}" for 0 <= n < 100
NumStr(n) == IF n < 10 THEN <<Digit[n + 1]>>
             ELSE <<Digit[(n \div 10) + 1], Digit[(n % 10) + 1]>>

\* Lines 131-135 and 150-156: the templated prompts.
BasePromptTemplates ==
    << <<"A professional setting showcasing ", ProductDescription>>,
       <<"A modern environment featuring ", ProductDescription>>,
       <<"An elegant backdrop for ", ProductDescription>> >>
FallbackPrompts ==
    << <<"A modern minimalist studio with soft lighting, perfect for showcasing ",
         ProductDescription>>,
       <<"A vibrant contemporary setting with natural elements, ideal for ",
         ProductDescription>>,
       <<"A luxurious elegant environment with sophisticated lighting, showcasing ",
         ProductDescription>>,
       <<"A dynamic urban backdrop with modern aesthetics, featuring ",
         ProductDescription>>,
       <<"A serene natural setting with professional lighting, highlighting ",
         ProductDescription>> >>

\* Lines 136-141: "while len(prompts) < num_prompts".
RECURSIVE PadPrompts(_, _, _)
PadPrompts(list, base_prompts, num_prompts) ==
    IF Len(list) >= num_prompts THEN list
    ELSE LET idx == Len(list) % Len(base_prompts)
             variation ==
                 IF Len(list) >= Len(base_prompts)
                 THEN base_prompts[idx + 1] \o <<", variation ">>
                          \o NumStr(Len(list) - Len(base_prompts) + 1)
                 ELSE base_prompts[idx + 1]
         IN PadPrompts(Append(list, variation), base_prompts, num_prompts)

\* list[:n]
Take(list, n) == SubSeq(list, 1, IF n < Len(list) THEN n ELSE Len(list))

\* generate_prompts, given what _call_gemini did.
generate_prompts(response, num_prompts) ==
    IF response.kind = "raise" THEN FallbackPrompts
    ELSE IF response.lines # <<>>
    THEN LET parsed == ParseLines(response.lines, PromptMinLength)
             padded ==
                 IF Len(parsed) < num_prompts
                 THEN PadPrompts(parsed,
                                 IF parsed # <<>> THEN parsed ELSE BasePromptTemplates,
                                 num_prompts)
                 ELSE parsed
         IN Take(padded, num_prompts)
    ELSE <<>>

\* Lines 209-212 and 227-233: the templated captions.
BaseCaptionTemplates ==
    << <<"Discover ", ProductDescription, "! ", "#", "Quality ", "#", "Innovation">>,
       <<"Elevate your experience. ", ProductDescription, " ", "#", "Premium ",
         "#", "Style">> >>
FallbackCaptions ==
    << <<"Discover ", ProductDescription, "! ", "#", "Quality ", "#", "Innovation">>,
       <<"Elevate your experience with ", ProductDescription, ". ", "#", "Premium ",
         "#", "Style">>,
       <<"Transform your world. ", ProductDescription, " ", "#", "Modern ", "#",
         "Design">>,
       <<"Experience the difference. ", ProductDescription, " ", "#", "Excellence ",
         "#", "Luxury">>,
       <<"Your new favorite. ", ProductDescription, " ", "#", "Trending ", "#",
         "MustHave">> >>

\* variation.replace("#", "#New")
ReplaceHash(text) ==
    [k \in 1 .. Len(text) |-> IF text[k] = "#" THEN "#New" ELSE text[k]]

\* Lines 213-218: "while len(captions) < num_captions".
RECURSIVE PadCaptions(_, _, _)
PadCaptions(list, base_captions, num_captions) ==
    IF Len(list) >= num_captions THEN list
    ELSE LET idx == Len(list) % Len(base_captions)
             variation ==
                 IF Len(list) >= Len(base_captions)
                 THEN ReplaceHash(base_captions[idx + 1])
                 ELSE base_captions[idx + 1]
         IN PadCaptions(Append(list, variation), base_captions, num_captions)

\* generate_captions, given what _call_gemini did.
generate_captions(response, num_captions) ==
    IF response.kind = "raise" THEN FallbackCaptions
    ELSE IF response.lines # <<>>
    THEN LET parsed == ParseLines(response.lines, CaptionMinLength)
             padded ==
                 IF Len(parsed) < num_captions
                 THEN PadCaptions(parsed,
                                  IF parsed # <<>> THEN parsed ELSE BaseCaptionTemplates,
                                  num_captions)
                 ELSE parsed
         IN Take(padded, num_captions)
    ELSE <<>>

-----------------------------------------------------------------------------
(* Specification of the text generators: calls with responses from bounded
   sets *)

Body(n) == [k \in 1 .. n |-> "x"]

\* The lines a response is made of: a numbered item, an empty line, a short
\* bulleted item (long enough for a caption, too short for a prompt) and a
\* bold item.
LineChoices ==
    { <<"1", ".", " ">> \o Body(12),
      <<>>,
      <<"-", " ">> \o Body(6),
      <<"*", "*">> \o Body(11) \o <<"*", "*">> }

RECURSIVE SeqsUpTo(_, _)
SeqsUpTo(S, n) ==
    IF n = 0 THEN {<<>>}
    ELSE LET shorter == SeqsUpTo(S, n - 1)
         IN shorter \cup {Append(q, x) : q \in {r \in shorter : Len(r) = n - 1}, x \in S}

\* What the endpoint can do.
HttpOutcomes ==
    {[kind |-> "raise", lines |-> <<>>]}
    \cup {[kind |-> "text", lines |-> ls] : ls \in SeqsUpTo(LineChoices, MaxLines)}

InitText ==
    /\ IdleComposite
    /\ num_variations \in SliderMin .. SliderMax
    /\ gemini = NoResponse
    /\ prompts = <<>>
    /\ captions = <<>>
    /\ tpc \in {"prompts", "captions"}
    /\ IdleApp

CallGeneratePrompts ==
    /\ tpc = "prompts"
    /\ \E key_set \in BOOLEAN, http \in HttpOutcomes :
          /\ gemini' = _call_gemini(key_set, http)
          /\ prompts' = generate_prompts(gemini', num_variations)
    /\ tpc' = "prompts_done"
    /\ UNCHANGED <<num_variations, captions, compositeVars, appVars>>

CallGenerateCaptions ==
    /\ tpc = "captions"
    /\ \E key_set \in BOOLEAN, http \in HttpOutcomes :
          /\ gemini' = _call_gemini(key_set, http)
          /\ captions' = generate_captions(gemini', num_variations)
    /\ tpc' = "captions_done"
    /\ UNCHANGED <<num_variations, prompts, compositeVars, appVars>>

NextText == CallGeneratePrompts \/ CallGenerateCaptions

SpecText == InitText /\ [][NextText]_vars

\* C9: generate_prompts and generate_captions each return exactly count
\* items, for every count of the slider and every outcome of the
\* text-generation call (well-formed, too few items, empty text, failure).
C9_ExactlyCount ==
    /\ tpc = "prompts_done" => Len(prompts) = num_variations
    /\ tpc = "captions_done" => Len(captions) = num_variations

-----------------------------------------------------------------------------
(* logic_image_gen.py: generate_background *)

\* An error message is a sequence of text fragments; "w in message.lower()"
\* is: some fragment, lower-cased, is w.
MsgNoKey == <<"STABILITY_API_KEY not found in environment variables">>
MsgNoArtifacts == <<"No artifacts in API response">>
MsgCredits ==
    <<"Stable Diffusion 3.5 Medium model is ", "not accessible", ". Your ", "credits",
      " may have ended. Please check your Stability AI account balance.">>
MsgInvalidKey ==
    <<"Invalid API key. Please check your STABILITY_API_KEY in the .env file.">>
MsgRateLimit == <<"Rate limit exceeded. Please wait a moment and try again.">>
NoMessage == <<>>

\* Texts that come from outside: the body of an error response, the text of
\* an exception.
ErrorTexts ==
    { <<"connection reset by peer">>,
      <<"resource ", "not accessible">>,
      <<"Insufficient ", "Credits">> }

\* What the image service (or the request to it) did at one call.
\*   "image"     status 200 with an artifact, a side x side image
\*   "empty"     status 200 without artifacts
\*   "status"    another status code, with the response's message
\*   "network"   requests.exceptions.RequestException
\*   "exception" any other exception inside the try
StabilityResponses ==
    {[kind |-> "image", status |-> 200, side |-> s, text |-> <<>>] : s \in {DefaultSide, 1}}
    \cup {[kind |-> "empty", status |-> 200, side |-> 0, text |-> <<>>]}
    \cup {[kind |-> "status", status |-> c, side |-> 0, text |-> <<>>] : c \in {401, 402, 429}}
    \cup {[kind |-> "status", status |-> 500, side |-> 0, text |-> t] : t \in ErrorTexts}
    \cup {[kind |-> k, status |-> 0, side |-> 0, text |-> t] :
            k \in {"network", "exception"}, t \in ErrorTexts}

\* generate_background: (image, error_message).
generate_background(key_set, response) ==
    IF ~key_set THEN [image |-> NoImage, error_message |-> MsgNoKey]
    ELSE IF response.kind = "image"
    THEN [image |-> SolidImage("RGB", response.side, response.side, Pixel(100, 255)),
          error_message |-> NoMessage]
    ELSE IF response.kind = "empty"
    THEN [image |-> NoImage, error_message |-> MsgNoArtifacts]
    ELSE IF response.kind = "status" /\ response.status = 402
    THEN [image |-> NoImage, error_message |-> MsgCredits]
    ELSE IF response.kind = "status" /\ response.status = 401
    THEN [image |-> NoImage, error_message |-> MsgInvalidKey]
    ELSE IF response.kind = "status" /\ response.status = 429
    THEN [image |-> NoImage, error_message |-> MsgRateLimit]
    ELSE IF response.kind = "status"
    THEN [image |-> NoImage,
          error_message |-> <<"API Error (">> \o NumStr(response.status \div 10)
                            \o NumStr(response.status % 10) \o <<"): ">> \o response.text]
    ELSE IF response.kind = "network"
    THEN [image |-> NoImage, error_message |-> <<"Network error: ">> \o response.text]
    ELSE [image |-> NoImage,
          error_message |-> <<"Error generating background: ">> \o response.text]

-----------------------------------------------------------------------------
(* app.py: one run of the script after "Generate Campaign" is clicked *)

\* str.lower(), on the fragments that have upper-case letters and matter.
Lower(fragment) ==
    CASE fragment = "Credits" -> "credits"
      [] fragment = "Not Accessible" -> "not accessible"
      [] OTHER -> fragment

\* word in error_message.lower()
Mentions(error_message, word) ==
    \E k \in 1 .. Len(error_message) : Lower(error_message[k]) = word

\* Mutant of IsCreditsError: only "credits" is looked for.
IsCreditsError_CreditsOnly(error_message) == Mentions(error_message, "credits")

\* Line 166: the test that makes a failure fatal.
IsCreditsError(error_message) ==
    Mentions(error_message, "credits") \/ Mentions(error_message, "not accessible")

\* An uploaded file: its decoded image, or bytes Image.open cannot decode.
File(image) == [kind |-> "file", decodable |-> TRUE, image |-> image]
BadFile == [kind |-> "file", decodable |-> FALSE, image |-> NoImage]

\* A call made or a message shown: what it is about, and the variation number
\* or count it carries (0: none).
Event(op, what, n) == [op |-> op, what |-> what, n |-> n]

\* Lines 120-123: "if image.mode != 'RGBA': image = image.convert('RGBA')".
EnsureAlpha(image) == IF image.mode # "RGBA" THEN convert(image, "RGBA") ELSE image

\* Mutant of CaptionFor: every variation gets the first caption.
CaptionFor_First(caps, index) == caps[1]

\* Line 181: captions[i] if i < len(captions) else captions[-1]
CaptionFor(caps, index) ==
    IF index < Len(caps) THEN caps[index + 1] ELSE caps[Len(caps)]

\* Lines 232-235 and 238-242: the archive's entries for the composites.
ImageEntry(composite_data) ==
    [name |-> <<"ad_variation_">> \o NumStr(composite_data.variation_num) \o <<".png">>,
     data |-> composite_data.image]
CaptionBlock(comp) ==
    <<"Variation ">> \o NumStr(comp.variation_num) \o <<":", "\n">> \o comp.caption
RECURSIVE Join(_, _)
Join(blocks, separator) ==
    IF blocks = <<>> THEN <<>>
    ELSE IF Len(blocks) = 1 THEN blocks[1]
    ELSE blocks[1] \o separator \o Join(Tail(blocks), separator)
CaptionsEntry(comps) ==
    [name |-> <<"captions.txt">>,
     data |-> Join([k \in 1 .. Len(comps) |-> CaptionBlock(comps[k])], <<"\n", "\n">>)]

\* The responses of the text endpoint a run is offered: a failure, an empty
\* text, too few items, and count numbered items.
NumberedLine(k) == NumStr(k) \o <<".", " ">> \o Body(11) \o NumStr(k)
RunHttpOutcomes(count) ==
    {[kind |-> "raise", lines |-> <<>>],
     [kind |-> "text", lines |-> <<>>],
     [kind |-> "text", lines |-> <<NumberedLine(1), NumberedLine(2)>>],
     [kind |-> "text", lines |-> [k \in 1 .. count |-> NumberedLine(k)]]}

\* The description typed: nothing, nine characters between blanks, ten
\* characters, and ten characters of which six are blanks inside the text.
Descriptions ==
    {<<>>, <<" ">> \o Body(9) \o <<" ">>, Body(10),
     Body(2) \o <<" ", " ", " ", "tab", " ", " ">> \o Body(2)}

AppPositions ==
    {"idle", "click", "load", "prompts", "captions", "loop", "results", "package",
     "done", "stopped", "error"}

InitApp ==
    /\ IdleComposite
    /\ num_variations \in SliderMin .. MaxRunVariations
    /\ gemini = NoResponse
    /\ prompts = <<>>
    /\ captions = <<>>
    /\ tpc = "idle"
    /\ product_image_file \in
          {NoFile, BadFile, File(SolidImage("RGB", 2, 3, Pixel(250, 255)))}
    /\ logo_image_file \in {NoFile, File(SolidImage("RGBA", 2, 1, Pixel(10, 128)))}
    /\ product_description \in Descriptions
    /\ env \in [GEMINI_API_KEY : BOOLEAN, STABILITY_API_KEY : BOOLEAN]
    /\ apc = "click"
    /\ i = 0
    /\ composites = <<>>
    /\ failed_generations = <<>>
    /\ last_response = NoStabilityResponse
    /\ events = <<>>
    /\ archive = <<>>

\* Lines 84-105: validation; each failure shows an error and st.stop()s.
Validate ==
    /\ apc = "click"
    /\ LET problem ==
            IF product_image_file = NoFile THEN "no product image"
            ELSE IF logo_image_file = NoFile THEN "no logo image"
            ELSE IF product_description = <<>> \/ Len(Strip(product_description)) < 10
                 THEN "description too short"
            ELSE IF ~env.GEMINI_API_KEY THEN "no GEMINI_API_KEY"
            ELSE IF ~env.STABILITY_API_KEY THEN "no STABILITY_API_KEY"
            ELSE "none"
       IN IF problem = "none"
          THEN /\ apc' = "load"
               /\ UNCHANGED events
          ELSE /\ apc' = "stopped"
               /\ events' = Append(events, Event("st.sidebar.error", problem, 0))
    /\ UNCHANGED <<product_image_file, logo_image_file, product_description, env, i,
                   composites, failed_generations, last_response, archive,
                   textVars, compositeVars>>

\* Lines 112-123: the uploads are opened; an undecodable file raises, which
\* the outer except (lines 258-260) reports.
LoadImages ==
    /\ apc = "load"
    /\ IF product_image_file.decodable /\ logo_image_file.decodable
       THEN /\ apc' = "prompts"
            /\ UNCHANGED events
       ELSE /\ apc' = "error"
            /\ events' = Append(events, Event("st.error", "exception", 0))
    /\ UNCHANGED <<product_image_file, logo_image_file, product_description, env, i,
                   composites, failed_generations, last_response, archive,
                   textVars, compositeVars>>

\* Lines 125-133.
GeneratePrompts ==
    /\ apc = "prompts"
    /\ \E http \in RunHttpOutcomes(num_variations) :
          /\ gemini' = _call_gemini(env.GEMINI_API_KEY, http)
          /\ prompts' = generate_prompts(gemini', num_variations)
    /\ IF prompts' = <<>>
       THEN /\ apc' = "stopped"
            /\ events' = events \o <<Event("generate_prompts", "call", 0),
                                     Event("st.error", "no prompts", 0)>>
       ELSE /\ apc' = "captions"
            /\ events' = Append(events, Event("generate_prompts", "call", 0))
    /\ UNCHANGED <<product_image_file, logo_image_file, product_description, env, i,
                   composites, failed_generations, last_response, archive,
                   num_variations, captions, tpc, compositeVars>>

\* Lines 135-150.
GenerateCaptions ==
    /\ apc = "captions"
    /\ \E http \in RunHttpOutcomes(num_variations) :
          /\ gemini' = _call_gemini(env.GEMINI_API_KEY, http)
          /\ captions' = generate_captions(gemini', num_variations)
    /\ IF captions' = <<>>
       THEN /\ apc' = "stopped"
            /\ events' = events \o <<Event("generate_captions", "call", 0),
                                     Event("st.error", "no captions", 0)>>
       ELSE /\ apc' = "loop"
            /\ events' = Append(events, Event("generate_captions", "call", 0))
    /\ UNCHANGED <<product_image_file, logo_image_file, product_description, env, i,
                   composites, failed_generations, last_response, archive,
                   num_variations, prompts, tpc, compositeVars>>

\* Mutant of RecordFailure: the loop index is recorded, not the variation
\* number.
RecordFailure_Index(failed, index) == Append(failed, index)

\* Lines 163 and 190: failed_generations.append(i + 1)
RecordFailure(failed, index) == Append(failed, index + 1)

\* Lines 152-191: one iteration of "for i, prompt in enumerate(prompts)".
\* st.stop() raises a control-flow exception that "except Exception" does not
\* catch: the run ends there.
Variation ==
    /\ apc = "loop"
    /\ i < Len(prompts)
    /\ \E response \in StabilityResponses :
        LET got == generate_background(env.STABILITY_API_KEY, response)
            called == Append(events, Event("generate_background", "call", i + 1))
            made == create_composite(got.image,
                                     EnsureAlpha(product_image_file.image),
                                     EnsureAlpha(logo_image_file.image),
                                     DefaultProductSizeRatio, DefaultLogoSizeRatio)
        IN /\ last_response' = response
           /\ IF got.image = NoImage
              THEN /\ failed_generations' = RecordFailure(failed_generations, i)
                   /\ UNCHANGED composites
                   /\ IF got.error_message # NoMessage
                         /\ IsCreditsError(got.error_message)
                      THEN /\ events' = Append(called, Event("st.error", "credits", i + 1))
                           /\ apc' = "stopped"
                           /\ UNCHANGED i
                      ELSE /\ events' = Append(called, Event("st.warning", "variation failed", i + 1))
                           /\ apc' = "loop"
                           /\ i' = i + 1
              ELSE IF made.raised
              THEN /\ events' = Append(called, Event("st.warning", "variation failed", i + 1))
                   /\ failed_generations' = RecordFailure(failed_generations, i)
                   /\ UNCHANGED composites
                   /\ apc' = "loop"
                   /\ i' = i + 1
              ELSE /\ composites' = Append(composites,
                                           [image |-> made.image,
                                            caption |-> CaptionFor(captions, i),
                                            variation_num |-> i + 1])
                   /\ events' = Append(called, Event("time.sleep", "call", i + 1))
                   /\ UNCHANGED failed_generations
                   /\ apc' = "loop"
                   /\ i' = i + 1
    /\ UNCHANGED <<product_image_file, logo_image_file, product_description, env,
                   archive, textVars, compositeVars>>

\* Mutant of ShowResults: "if not composites" (lines 196-198) is missing.
ShowResults_NoEmptyCheck ==
    /\ apc = "loop"
    /\ i = Len(prompts)
    /\ apc' = "package"
    /\ events' = Append(events, Event("st.success", "generated", Len(composites)))
    /\ UNCHANGED <<product_image_file, logo_image_file, product_description, env, i,
                   composites, failed_generations, last_response, archive,
                   textVars, compositeVars>>

\* Lines 193-221: after the loop.
ShowResults ==
    /\ apc = "loop"
    /\ i = Len(prompts)
    /\ IF composites = <<>>
       THEN /\ apc' = "stopped"
            /\ events' = Append(events, Event("st.error", "no variations", 0))
       ELSE /\ apc' = "package"
            /\ events' = Append(events, Event("st.success", "generated", Len(composites)))
    /\ UNCHANGED <<product_image_file, logo_image_file, product_description, env, i,
                   composites, failed_generations, last_response, archive,
                   textVars, compositeVars>>

\* Lines 223-256: the archive and the download button.
Package ==
    /\ apc = "package"
    /\ archive' = [k \in 1 .. Len(composites) |-> ImageEntry(composites[k])]
                  \o <<CaptionsEntry(composites)>>
    /\ events' = Append(events, Event("st.download_button", "archive", Len(composites)))
    /\ apc' = "done"
    /\ UNCHANGED <<product_image_file, logo_image_file, product_description, env, i,
                   composites, failed_generations, last_response,
                   textVars, compositeVars>>

NextApp ==
    \/ Validate
    \/ LoadImages
    \/ GeneratePrompts
    \/ GenerateCaptions
    \/ Variation
    \/ ShowResults
    \/ Package

SpecApp == InitApp /\ [][NextApp]_vars

-----------------------------------------------------------------------------
(* Properties of the run *)

\* The image service reported exhausted credits (status 402).
CreditsExhausted(response) == response.kind = "status" /\ response.status = 402

\* The run was stopped inside the variation loop by a fatal background error.
AbortedInLoop ==
    /\ apc = "stopped"
    /\ events # <<>>
    /\ events[Len(events)].op = "st.error"
    /\ events[Len(events)].what = "credits"

\* C10: a background-generation failure aborts the whole run (no later
\* background call, no archive) if and only if it is of the credits-exhausted
\* class; every other failure class skips only that variation, records it,
\* and the loop continues with the next one.
C10_FatalIffCreditsClass ==
    last_response # NoStabilityResponse =>
        /\ AbortedInLoop <=> CreditsExhausted(last_response)
        /\ AbortedInLoop => archive = <<>>
        /\ (apc = "loop" /\ last_response.kind # "image") =>
               /\ failed_generations # <<>>
               /\ failed_generations[Len(failed_generations)] = i

\* The variation loop ran through every prompt (no fatal abort inside it).
LoopCompleted == prompts # <<>> /\ captions # <<>> /\ i = Len(prompts)

\* Some event of the run has this op.
Happened(op) == \E k \in 1 .. Len(events) : events[k].op = op

\* C11: when the loop has ended with no successful composite, the run goes
\* nowhere but to the overall-failure report: it stops with that error, and
\* neither the archive is built nor the download button shown.
C11_NoCompositesNoArchive ==
    (LoopCompleted /\ composites = <<>>) =>
        /\ apc \in {"loop", "stopped"}
        /\ apc = "stopped" =>
               events[Len(events)] = Event("st.error", "no variations", 0)
        /\ archive = <<>>
        /\ ~Happened("st.download_button")
        /\ ~Happened("st.success")

C11_Witness ==
    /\ LoopCompleted /\ composites = <<>> /\ apc = "stopped"
    /\ Len(failed_generations) = Len(prompts)
    /\ events[Len(events)] = Event("st.error", "no variations", 0)

\* The variation numbers that did not fail.
Succeeded ==
    {k \in 1 .. Len(prompts) :
        \A j \in 1 .. Len(failed_generations) : failed_generations[j] # k}

\* The numbers of a set, in increasing order.
RECURSIVE Ascending(_)
Ascending(numbers) ==
    IF numbers = {} THEN <<>>
    ELSE LET least == CHOOSE n \in numbers : \A o \in numbers : n <= o
         IN <<least>> \o Ascending(numbers \ {least})

ImageName(k) == <<"ad_variation_">> \o NumStr(k) \o <<".png">>
CaptionsName == <<"captions.txt">>

\* The archive holds one image entry per successful variation, under pairwise
\* distinct names made from the variation number, and one captions entry.
ArchiveEntries ==
    /\ Len(archive) = Cardinality(Succeeded) + 1
    /\ \A k \in Succeeded :
          Cardinality({a \in 1 .. Len(archive) :
                          archive[a].name = ImageName(k)
                          /\ archive[a].data # NoImage}) = 1
    /\ Cardinality({a \in 1 .. Len(archive) : archive[a].name = CaptionsName}) = 1
    /\ \A a, b \in 1 .. Len(archive) : a # b => archive[a].name # archive[b].name

\* The captions entry lists, for the successful variations in order and for
\* no others, the caption Caption(k) under the heading "Variation k:".
CaptionsListed(Caption(_)) ==
    LET ks == Ascending(Succeeded)
        text == (CHOOSE e \in {archive[a] : a \in 1 .. Len(archive)} :
                    e.name = CaptionsName).data
    IN text = Join([n \in 1 .. Len(ks) |->
                       <<"Variation ">> \o NumStr(ks[n]) \o <<":", "\n">>
                           \o Caption(ks[n])],
                   <<"\n", "\n">>)

KthCaption(k) == captions[k]
KthOrLastCaption(k) == IF k <= Len(captions) THEN captions[k] ELSE captions[Len(captions)]

NonBlankCount(text) ==
    Cardinality({k \in 1 .. Len(text) : text[k] \notin Whitespace})

\* The length of a text without its leading and trailing blanks.
TrimmedLength(text) ==
    LET inked == {k \in 1 .. Len(text) : text[k] \notin Whitespace}
    IN IF inked = {} THEN 0
       ELSE (CHOOSE k \in inked : \A o \in inked : o <= k)
            - (CHOOSE k \in inked : \A o \in inked : k <= o) + 1

MissingAssetOrCredential ==
    \/ product_image_file = NoFile
    \/ logo_image_file = NoFile
    \/ ~env.GEMINI_API_KEY
    \/ ~env.STABILITY_API_KEY

\* The run stopped at validation with one error, and no prompt, caption or
\* background generation call was made.
StoppedBeforeProcessing ==
    /\ apc \in {"click", "stopped"}
    /\ apc = "stopped" =>
          Len(events) = 1 /\ events[1].op = "st.sidebar.error"
    /\ ~Happened("generate_prompts")
    /\ ~Happened("generate_captions")
    /\ ~Happened("generate_background")

\* C13 as stated: with a missing product or logo image, a description of
\* fewer than 10 non-blank characters, or a missing credential, the run
\* stops with an error before any generation call is made.
C13_Original ==
    (MissingAssetOrCredential \/ NonBlankCount(product_description) < 10)
        => StoppedBeforeProcessing

\* C13 amended: the description is measured by its length without leading
\* and trailing blanks (blanks inside it count): with a missing product or
\* logo image, a description whose trimmed length is below 10, or a missing
\* credential, the run stops with an error before any generation call is made.
C13_TrimmedLength ==
    (MissingAssetOrCredential \/ TrimmedLength(product_description) < 10)
        => StoppedBeforeProcessing

C13_Witness ==
    /\ apc = "stopped"
    /\ product_image_file # NoFile /\ logo_image_file # NoFile
    /\ env.GEMINI_API_KEY /\ env.STABILITY_API_KEY
    /\ Len(product_description) > 10
    /\ TrimmedLength(product_description) < 10
    /\ events = <<Event("st.sidebar.error", "description too short", 0)>>

\* C15: the fixed delay separates any two generate_background calls of the
\* loop: between an earlier and a later call a time.sleep was executed,
\* whether the earlier variation succeeded, was skipped or raised.
C15_DelayBetweenCalls ==
    \A p, q \in 1 .. Len(events) :
        (p < q /\ events[p].op = "generate_background"
               /\ events[q].op = "generate_background")
        => \E r \in p + 1 .. q - 1 : events[r].op = "time.sleep"

\* How often a variation number is among the composites, and among the
\* recorded failures.
TimesComposed(k) ==
    Cardinality({a \in 1 .. Len(composites) : composites[a].variation_num = k})
TimesFailed(k) ==
    Cardinality({a \in 1 .. Len(failed_generations) : failed_generations[a] = k})

\* C16: when the loop has run through every prompt, each variation number
\* 1..len(prompts) is exactly once either a composite's variation_num or in
\* failed_generations, nothing else is in either list, and the composites
\* are in increasing variation order.
C16_Partition ==
    LoopCompleted =>
        /\ \A k \in 1 .. Len(prompts) : TimesComposed(k) + TimesFailed(k) = 1
        /\ Len(composites) + Len(failed_generations) = Len(prompts)
        /\ \A a, b \in 1 .. Len(composites) :
              a < b => composites[a].variation_num < composites[b].variation_num

\* A completed loop with successes and failures, the first variation having
\* failed and a later one succeeded.
C16_Witness ==
    /\ LoopCompleted /\ apc = "package"
    /\ Len(composites) >= 2 /\ Len(failed_generations) >= 2
    /\ failed_generations[1] = 1
    /\ composites[Len(composites)].variation_num = Len(prompts)

-----------------------------------------------------------------------------
(* Specification of the compositor: a call with inputs from bounded sets *)

\* Solid-colour images of mode RGB (no alpha: opaque) and RGBA.
Backgrounds ==
    {SolidImage(m, w, h, Pixel(100, 255)) :
        m \in {"RGB", "RGBA"}, w \in BgSides, h \in BgSides}

Overlays(colour) ==
    {SolidImage("RGBA", w, h, Pixel(colour, a)) :
        w \in 1 .. MaxDim, h \in 1 .. MaxDim, a \in Alphas}
    \cup {SolidImage("RGB", w, h, Pixel(colour, 255)) :
        w \in 1 .. MaxDim, h \in 1 .. MaxDim}

InitComposite ==
    /\ background \in Backgrounds
    /\ product \in Overlays(250)
    /\ logo \in Overlays(10)
    /\ product_size_ratio \in ProductRatios
    /\ logo_size_ratio \in LogoRatios
    /\ cpc = "call"
    /\ cc = NotCalled
    /\ passed = <<>>
    /\ IdleText
    /\ IdleApp

CallCreateComposite ==
    /\ cpc = "call"
    /\ cc' = create_composite(background, product, logo,
                              product_size_ratio, logo_size_ratio)
    /\ cpc' = IF cc'.raised THEN "raised" ELSE "returned"
    /\ LET after == create_composite_objects(background, product, logo,
                                             product_size_ratio, logo_size_ratio)
       IN /\ background' = after.background
          /\ product' = after.product
          /\ logo' = after.logo
    /\ passed' = <<background, product, logo>>
    /\ UNCHANGED <<product_size_ratio, logo_size_ratio, textVars, appVars>>

NextComposite == CallCreateComposite

SpecComposite == InitComposite /\ [][NextComposite]_vars

-----------------------------------------------------------------------------
(* Properties of create_composite *)

\* The call has ended, by a return or by an exception.
Called == cpc \in {"returned", "raised"}
\* The product's position was computed (its resize did not raise).
ProductPlaced == Called /\ cc.stage # "product_resize"
\* The logo's target size was computed.
LogoSized == Called /\ cc.stage \in {"logo_resize", "logo_paste", "return"}
\* The logo's position was computed.
LogoPlaced == Called /\ cc.stage \in {"logo_paste", "return"}

DefaultBackground == background.width = DefaultSide /\ background.height = DefaultSide
SquareProduct == product.width = product.height
TwoToOneLogo == logo.width = 2 * logo.height

\* C1 as stated: with the default ratios a 1:1 product on a 1024x1024
\* background is resized to 410x410 (round(1024 * 0.4)) and pasted at x=307,
\* y=563.
C1_Original ==
    (ProductPlaced /\ DefaultBackground /\ SquareProduct
        /\ product_size_ratio = DefaultProductSizeRatio)
    => cc.product_target = <<410, 410>> /\ cc.product_pos = <<307, 563>>

\* C1 amended: the target height is int(backgroundHeight * productSizeRatio)
\* and the width int(targetHeight * aspect), so that the 1:1 product on the
\* 1024x1024 background is resized to 409x409 and pasted at x=307,
\* y=564 (= 1024 - 409 - 51).
C1_Truncated ==
    (ProductPlaced /\ DefaultBackground /\ SquareProduct
        /\ product_size_ratio = DefaultProductSizeRatio)
    => cc.product_target = <<409, 409>> /\ cc.product_pos = <<307, 564>>

C1_Witness ==
    /\ cpc = "returned" /\ DefaultBackground /\ SquareProduct
    /\ product_size_ratio = DefaultProductSizeRatio
    /\ cc.product_resized.width = 409 /\ cc.product_pos[2] = 564

\* C2 as stated: with the default ratios a 2:1 logo on a 1024x1024 background
\* is resized to 154x77 (round(1024 * 0.15)) and pasted at x=850, y=20.
C2_Original ==
    (LogoPlaced /\ DefaultBackground /\ TwoToOneLogo
        /\ logo_size_ratio = DefaultLogoSizeRatio)
    => cc.logo_target = <<154, 77>> /\ cc.logo_pos = <<850, 20>>

\* C2 amended: the target width is int(backgroundWidth * logoSizeRatio) and
\* the height int(targetWidth / aspect), so that the 2:1 logo on the 1024x1024
\* background is resized to 153x76 and pasted at x=851 (= 1024 - 153 - 20),
\* y=20.
C2_Truncated ==
    (LogoPlaced /\ DefaultBackground /\ TwoToOneLogo
        /\ logo_size_ratio = DefaultLogoSizeRatio)
    => cc.logo_target = <<153, 76>> /\ cc.logo_pos = <<851, 20>>

C2_Witness ==
    /\ cpc = "returned" /\ DefaultBackground /\ TwoToOneLogo
    /\ logo_size_ratio = DefaultLogoSizeRatio
    /\ cc.logo_resized.width = 153 /\ cc.logo_pos[1] = 851

\* C3: the product target width never exceeds 0.9 * W, whether or not the
\* cap branch is taken.
C3_WidthCapped ==
    Called => 10 * cc.product_target[1] <= 9 * background.width

\* A call that took the cap branch with a non-default ratio and returned.
C3_Witness ==
    /\ cpc = "returned"
    /\ ProductCapped(background.width, background.height,
                     product.width, product.height, product_size_ratio)
    /\ product_size_ratio # DefaultProductSizeRatio
    /\ cc.product_target[1] = IntMul(background.width, MaxWidthFraction)

\* |w - h * a| <= 1 and |h - w / a| <= 1 for a = aw / ah, without division.
WidthWithinOnePixel(w, h, aw, ah) == Abs(w * ah - h * aw) <= ah
HeightWithinOnePixel(w, h, aw, ah) == Abs(h * aw - w * ah) <= aw

\* C4 as stated: the target size of the product and of the logo satisfies
\* both |w - h*a| <= 1 and |h - w/a| <= 1.
C4_Original ==
    /\ Called =>
          /\ WidthWithinOnePixel(cc.product_target[1], cc.product_target[2],
                                 product.width, product.height)
          /\ HeightWithinOnePixel(cc.product_target[1], cc.product_target[2],
                                  product.width, product.height)
    /\ LogoSized =>
          /\ WidthWithinOnePixel(cc.logo_target[1], cc.logo_target[2],
                                 logo.width, logo.height)
          /\ HeightWithinOnePixel(cc.logo_target[1], cc.logo_target[2],
                                  logo.width, logo.height)

\* C4 amended: the dimension that is derived from the other one is within one
\* pixel of its exact value: for the product |w - h*a| <= 1 when the cap is
\* not applied and |h - w/a| <= 1 when it is, for the logo |h - w/a| <= 1.
C4_DerivedDimension ==
    /\ Called =>
          IF ProductCapped(background.width, background.height,
                           product.width, product.height, product_size_ratio)
          THEN HeightWithinOnePixel(cc.product_target[1], cc.product_target[2],
                                    product.width, product.height)
          ELSE WidthWithinOnePixel(cc.product_target[1], cc.product_target[2],
                                   product.width, product.height)
    /\ LogoSized =>
          HeightWithinOnePixel(cc.logo_target[1], cc.logo_target[2],
                               logo.width, logo.height)

\* A returned call whose product was capped and is not square, with a logo
\* that is not square.
C4_Witness ==
    /\ cpc = "returned"
    /\ ProductCapped(background.width, background.height,
                     product.width, product.height, product_size_ratio)
    /\ product.width # product.height
    /\ logo.width # logo.height
    /\ cc.product_resized.height = (cc.product_resized.width * product.height) \div product.width

\* The paste rectangle lies inside the background.
RectInside(pos, size) ==
    /\ 0 <= pos[1] /\ 0 <= pos[2]
    /\ pos[1] + size[1] <= background.width
    /\ pos[2] + size[2] <= background.height

\* C5: neither overlay is cropped: the paste rectangles of the resized
\* product and of the resized logo lie inside the background.
C5_NoCrop ==
    /\ ProductPlaced => RectInside(cc.product_pos, cc.product_target)
    /\ LogoPlaced => RectInside(cc.logo_pos, cc.logo_target)

\* Standard "over" blending of an overlay pixel onto an opaque base pixel,
\* to within one 8-bit step.
OverBlend(result, base, overlay) ==
    /\ overlay.a = 255 => result = Pixel(overlay.c, 255)
    /\ overlay.a = 0 => result = base
    /\ Abs(255 * result.c - (overlay.c * overlay.a + base.c * (255 - overlay.a))) <= 255
    /\ result.a = 255

\* One paste: over-blended inside the overlay's box, unchanged outside.
PasteIsOver(base, overlay, position, result) ==
    \A p \in DOMAIN base.at :
        IF InBox(p, position, overlay)
        THEN OverBlend(result.at[p], base.at[p], overlay.px)
        ELSE result.at[p] = base.at[p]

\* C6: _paste_with_alpha is standard "over" blending per pixel: the overlay
\* pixel where its alpha is 255, the base pixel where it is 0, the linear
\* blend weighted by alpha in between, and the base pixel outside the box.
C6_OverBlending ==
    /\ (Called /\ cc.stage \in {"logo_resize", "return"}) =>
          PasteIsOver(cc.base, cc.product_resized, cc.product_pos, cc.after_product)
    /\ cpc = "returned" =>
          PasteIsOver(cc.after_product, cc.logo_resized, cc.logo_pos, cc.image)

\* C7: create_composite raises no error, and on a 1x1 opaque background with
\* fully transparent product and logo it returns the background pixel.
C7_NoError ==
    Called =>
        /\ cpc = "returned"
        /\ (background.width = 1 /\ background.height = 1
                /\ product.px.a = 0 /\ logo.px.a = 0)
            => cc.image.at[<<0, 0>>] = Pixel(background.px.c, 255)

\* C8: the returned image has the background's width and height, after the
\* product paste and after the logo paste.
C8_SameDimensions ==
    cpc = "returned" =>
        /\ cc.after_product.width = background.width
        /\ cc.after_product.height = background.height
        /\ cc.image.width = background.width
        /\ cc.image.height = background.height

\* A returned call whose product, logo and background sizes all differ.
C8_Witness ==
    /\ cpc = "returned"
    /\ cc.product_resized.width # background.width
    /\ cc.logo_resized.width # background.width
    /\ cc.logo_resized.width # cc.product_resized.width
    /\ cc.image.width = DefaultSide

\* C14: create_composite leaves its arguments as they were: across the call,
\* whether it returns or raises, the background, product and logo objects
\* passed in hold the same images as before.
C14_ArgumentsUnchanged ==
    Called => <<background, product, logo>> = passed

\* A returned call whose three arguments were RGBA already, so that
\* _prepare_image handed back the very objects passed in.
C14_Witness ==
    /\ cpc = "returned"
    /\ background.mode = "RGBA" /\ product.mode = "RGBA" /\ logo.mode = "RGBA"
    /\ cc.product_resized.width # product.width
    /\ cc.logo_resized.width # logo.width
    /\ cc.image # cc.base

====
